---- MODULE Spec2Model ----
(***************************************************************************)
(* Model of go-reroutine: the restart-on-panic supervision loops           *)
(* BlockingGo (stop channel), BlockingGo (context) and BlockingGoTomb,     *)
(* the panic containment HandleCrash, and the mockTomb the tests run       *)
(* BlockingGoTomb against.                                                 *)
(*                                                                         *)
(* One behaviour is one call of a blocking variant.  The goroutines are    *)
(* the seeder (go func() { start <- struct{}{} }), the loop driver (the    *)
(* caller, inside the for loop), one goroutine per attempt, and for the    *)
(* tomb the keeper goroutine of the test.  `start` is an unbuffered        *)
(* channel: a send completes only together with the driver's receive.      *)
(***************************************************************************)
EXTENDS Integers, Sequences, FiniteSets, TLC

\* Attempts the model lets the loop launch before it stops launching.
MaxAttempts == 4

Attempts == 1..MaxAttempts

\* Identity of the seeding goroutine among the senders on `start`.
Seeder == 0

Variants == {"stop", "ctx", "tomb"}

VARIABLES
    sc,             \* the call: variant and behaviour of the unit of work
    dpc,            \* loop driver: "recv", "check", "go", "returned"
    spc,            \* seeder: "send", "done"
    apc,            \* attempt n: "none","inc","signal","do","recover",
                    \*   "send","sent","close","exit","hung","done"
    aidx,           \* attempt n: index into PanicHandlers inside HandleCrash
    ares,           \* attempt n: "none", "fault", "normal", "hang"
    launched,       \* number of attempts launched so far
    counter,        \* the shared counter i the unit of work increments
    startClosed,    \* close(start) has happened
    cancelled,      \* stopChan is closed / ctx.Err() != nil
    ts,             \* mockTomb: alive, dying, dead, reason
    kpc,            \* keeper goroutine of the tomb test: "none","wait","done"
    PanicHandlers,  \* the process-wide handler list
    ReallyCrash,    \* the re-raise flag
    crashed,        \* an unrecovered panic has terminated the process
    cancelledEarly, \* history: cancellation was signalled before any fault
    asnap,          \* attempt n: the slice `range PanicHandlers` iterates
    alog,           \* attempt n: the handlers HandleCrash has invoked
    wpc             \* goroutine appending to PanicHandlers:
                    \*   "idle", "writing", "done"

vars == <<sc, dpc, spc, apc, aidx, ares, launched, counter, startClosed,
          cancelled, ts, kpc, PanicHandlers, ReallyCrash, crashed,
          cancelledEarly, asnap, alog, wpc>>

\* The calls explored: which variant is called, and what the unit of work
\* does on each attempt.  retAt = K > 0: attempt K returns normally;
\* hangAt = H > 0: attempt H neither returns nor panics; every other attempt
\* panics.  cancelAt = N > 0: the work signals cancellation when its
\* increment brings the counter to N.  retErr: the normal return carries a
\* non-nil error.  extCancel: somebody else may signal cancellation.
\* keeper: the tomb tracks another goroutine that waits for Dying.
\* No attempt follows one that returns or hangs, so at most one of retAt and
\* hangAt is set and cancelAt is not beyond it.
Scenarios ==
    { s \in [variant : Variants, retAt : 0..MaxAttempts,
             cancelAt : 0..MaxAttempts, hangAt : 0..MaxAttempts,
             retErr : BOOLEAN, extCancel : BOOLEAN, keeper : BOOLEAN] :
        /\ s.retErr => (s.variant = "tomb" /\ s.retAt > 0)
        /\ s.keeper => s.variant = "tomb"
        /\ ~(s.extCancel /\ s.cancelAt > 0)
        /\ ~(s.retAt > 0 /\ s.hangAt > 0)
        /\ s.retAt > 0 => s.cancelAt <= s.retAt
        /\ s.hangAt > 0 => s.cancelAt <= s.hangAt }

\* A handler a program registers besides logPanic.
NewHandler == "extra"

\* The state on entering the loop of a blocking variant, whatever the
\* process-wide configuration.
InitCall ==
    /\ sc \in Scenarios
    /\ dpc = "recv"
    /\ spc = "send"
    /\ apc = [n \in Attempts |-> "none"]
    /\ aidx = [n \in Attempts |-> 0]
    /\ ares = [n \in Attempts |-> "none"]
    /\ launched = 0
    /\ counter = 0
    /\ startClosed = FALSE
    /\ cancelled = FALSE
    /\ ts = [alive |-> IF sc.keeper THEN 1 ELSE 0, dying |-> FALSE,
             dead |-> FALSE, reason |-> "StillAlive"]
    /\ kpc = IF sc.keeper THEN "wait" ELSE "none"
    /\ crashed = FALSE
    /\ cancelledEarly = FALSE
    /\ asnap = [n \in Attempts |-> <<>>]
    /\ alog = [n \in Attempts |-> <<>>]
    /\ wpc = "idle"

\* The configuration as the package declares it.
Init ==
    /\ InitCall
    /\ PanicHandlers = <<"logPanic">>
    /\ ReallyCrash = FALSE

\* The configuration as a program may have set it before the call: the
\* re-raise flag either way, possibly a second handler registered.
InitConfigured ==
    /\ InitCall
    /\ PanicHandlers \in {<<"logPanic">>, <<"logPanic", NewHandler>>}
    /\ ReallyCrash \in BOOLEAN

----------------------------------------------------------------------------
(* Helpers *)

\* The cancellation source of the variant called: stopChan closed,
\* ctx.Err() != nil, or the tomb dying.
Cancelled == IF sc.variant = "tomb" THEN ts.dying ELSE cancelled

NoFaultYet == \A n \in Attempts : ares[n] # "fault"

\* cancelledEarly after a step that leaves the cancellation source in state c.
EarlyAfter(c) == cancelledEarly \/ (~Cancelled /\ c /\ NoFaultYet)

\* Goroutines blocked in `start <- struct{}{}`.
Senders ==
    (IF spc = "send" THEN {Seeder} ELSE {}) \cup
    {n \in Attempts : apc[n] = "send"}

\* Variation: the seeding goroutine sends in a loop.
SeederAfterStillSending(s) == spc

\* The seeder and the attempts after the driver's receive completed the
\* send of s.
SeederAfter(s) == IF s = Seeder THEN "done" ELSE spc

\* Variation: the additional handler sends again after its send completed.
AttemptsAfterStillSending(s) == apc

AttemptsAfter(s) == IF s = Seeder THEN apc ELSE [apc EXCEPT ![s] = "sent"]

\* What the unit of work does on attempt n.
Outcome(n) ==
    IF n = sc.hangAt THEN "hang"
    ELSE IF n = sc.retAt THEN "normal"
    ELSE "fault"

(* mockTomb *)

\* mockTomb.kill(reason)
Kill(t, r) ==
    IF t.reason = "StillAlive" THEN [t EXCEPT !.reason = r, !.dying = TRUE]
    ELSE IF t.reason = "nil" THEN [t EXCEPT !.reason = r]
    ELSE t

\* mockTomb.run after f returned err: the part under the mutex.
RunTail(t, err) ==
    LET t1 == [t EXCEPT !.alive = t.alive - 1]
        t2 == IF t1.alive = 0 \/ err # "nil" THEN Kill(t1, err) ELSE t1
    IN  IF t1.alive = 0 THEN [t2 EXCEPT !.dead = TRUE] ELSE t2

----------------------------------------------------------------------------
(* The loop driver *)

\* Variation: the stop channel is looked at only when a token arrives.
StopCaseWithToken == cancelled /\ Senders # {}

\* `case <-stopChan:` of the select is ready.
StopCase == cancelled

\* Variation: the check after the receive is left out.
CtxErrSkipped == FALSE

\* Variation: the check after the receive is inverted.
CtxErrInverted == ~cancelled

\* `if err := ctx.Err(); err != nil` after a token was received.
CtxErr == cancelled

\* Variation: the poll after the receive is left out.
DyingPollSkipped == FALSE

\* `select { case <-ts.Dying(): return; default: }` after a token was received.
DyingPoll == ts.dying

\* `go func() {...}()` / the goroutine of ts.Go: attempt launched+1 starts.
Launch(pcs) ==
    /\ launched < MaxAttempts
    /\ launched' = launched + 1
    /\ apc' = [pcs EXCEPT ![launched + 1] = "inc"]

\* Stop-channel BlockingGo: the select takes `case <-stopChan` and returns.
DriverSelectStop ==
    /\ ~crashed
    /\ sc.variant = "stop"
    /\ dpc = "recv"
    /\ StopCase
    /\ dpc' = "returned"
    /\ UNCHANGED <<sc, spc, apc, aidx, ares, launched, counter, startClosed,
                   cancelled, ts, kpc, PanicHandlers, ReallyCrash, crashed,
                   cancelledEarly,
                   asnap, alog, wpc>>

\* Stop-channel BlockingGo: the select takes `case _, ok := <-start` with a
\* token and launches the next attempt.
DriverSelectStart ==
    /\ ~crashed
    /\ sc.variant = "stop"
    /\ dpc = "recv"
    /\ ~startClosed
    /\ \E s \in Senders :
         /\ spc' = SeederAfter(s)
         /\ Launch(AttemptsAfter(s))
    /\ UNCHANGED <<sc, dpc, aidx, ares, counter, startClosed, cancelled, ts,
                   kpc, PanicHandlers, ReallyCrash, crashed, cancelledEarly,
                   asnap, alog, wpc>>

\* Variation: the loop takes the receive on the closed `start` for a token.
DriverStartClosedAsToken ==
    /\ ~crashed
    /\ dpc = "recv"
    /\ startClosed
    /\ Launch(apc)
    /\ UNCHANGED <<sc, dpc, spc, aidx, ares, counter, startClosed, cancelled,
                   ts, kpc, PanicHandlers, ReallyCrash, crashed,
                   cancelledEarly,
                   asnap, alog, wpc>>

\* Any variant: the receive on the closed `start` ends the loop (!ok, or the
\* end of `for range start`).
DriverStartClosed ==
    /\ ~crashed
    /\ dpc = "recv"
    /\ startClosed
    /\ dpc' = "returned"
    /\ UNCHANGED <<sc, spc, apc, aidx, ares, launched, counter, startClosed,
                   cancelled, ts, kpc, PanicHandlers, ReallyCrash, crashed,
                   cancelledEarly,
                   asnap, alog, wpc>>

\* Context BlockingGo and BlockingGoTomb: `for _ = range start` receives a
\* token.
DriverRange ==
    /\ ~crashed
    /\ sc.variant \in {"ctx", "tomb"}
    /\ dpc = "recv"
    /\ ~startClosed
    /\ \E s \in Senders :
         /\ spc' = SeederAfter(s)
         /\ apc' = AttemptsAfter(s)
    /\ dpc' = "check"
    /\ UNCHANGED <<sc, aidx, ares, launched, counter, startClosed, cancelled,
                   ts, kpc, PanicHandlers, ReallyCrash, crashed,
                   cancelledEarly,
                   asnap, alog, wpc>>

\* Context BlockingGo: the ctx.Err() check, then the launch.
DriverCtxCheck ==
    /\ ~crashed
    /\ sc.variant = "ctx"
    /\ dpc = "check"
    /\ IF CtxErr
       THEN /\ dpc' = "returned"
            /\ UNCHANGED <<apc, launched>>
       ELSE /\ Launch(apc)
            /\ dpc' = "recv"
    /\ UNCHANGED <<sc, spc, aidx, ares, counter, startClosed, cancelled, ts,
                   kpc, PanicHandlers, ReallyCrash, crashed, cancelledEarly,
                   asnap, alog, wpc>>

\* BlockingGoTomb: the non-blocking poll of ts.Dying().
DriverTombPoll ==
    /\ ~crashed
    /\ sc.variant = "tomb"
    /\ dpc = "check"
    /\ dpc' = IF DyingPoll THEN "returned" ELSE "go"
    /\ UNCHANGED <<sc, spc, apc, aidx, ares, launched, counter, startClosed,
                   cancelled, ts, kpc, PanicHandlers, ReallyCrash, crashed,
                   cancelledEarly,
                   asnap, alog, wpc>>

\* BlockingGoTomb: ts.Go(f).  mockTomb.Go panics on a dead tomb, in the
\* driver's goroutine; otherwise alive++ and the attempt starts.
DriverTombGo ==
    /\ ~crashed
    /\ sc.variant = "tomb"
    /\ dpc = "go"
    /\ IF ts.dead
       THEN /\ crashed' = TRUE
            /\ UNCHANGED <<dpc, apc, launched, ts>>
       ELSE /\ Launch(apc)
            /\ ts' = [ts EXCEPT !.alive = ts.alive + 1]
            /\ dpc' = "recv"
            /\ crashed' = crashed
    /\ UNCHANGED <<sc, spc, aidx, ares, counter, startClosed, cancelled, kpc,
                   PanicHandlers, ReallyCrash, cancelledEarly,
                   asnap, alog, wpc>>

----------------------------------------------------------------------------
(* The unit of work and its cancellation source *)

\* close(stop) / cancel() / ts.Kill(nil)
SignalCancel ==
    /\ cancelled' = IF sc.variant = "tomb" THEN cancelled ELSE TRUE
    /\ ts' = IF sc.variant = "tomb" THEN Kill(ts, "nil") ELSE ts
    /\ cancelledEarly' = EarlyAfter(TRUE)

\* Somebody other than the unit of work signals cancellation.
ExtCancel ==
    /\ ~crashed
    /\ sc.extCancel
    /\ ~Cancelled
    /\ SignalCancel
    /\ UNCHANGED <<sc, dpc, spc, apc, aidx, ares, launched, counter,
                   startClosed, kpc, PanicHandlers, ReallyCrash, crashed,
                   asnap, alog, wpc>>

\* The unit of work: atomic.AddInt32(&i, 1) and the comparison of its result.
AttemptInc(n) ==
    /\ ~crashed
    /\ apc[n] = "inc"
    /\ counter' = counter + 1
    /\ apc' = [apc EXCEPT
                 ![n] = IF counter + 1 = sc.cancelAt THEN "signal" ELSE "do"]
    /\ UNCHANGED <<sc, dpc, spc, aidx, ares, launched, startClosed, cancelled,
                   ts, kpc, PanicHandlers, ReallyCrash, crashed,
                   cancelledEarly,
                   asnap, alog, wpc>>

\* The unit of work signals cancellation: close(stop), ts.Kill(nil).
AttemptSignal(n) ==
    /\ ~crashed
    /\ apc[n] = "signal"
    /\ SignalCancel
    /\ apc' = [apc EXCEPT ![n] = "do"]
    /\ UNCHANGED <<sc, dpc, spc, aidx, ares, launched, counter, startClosed,
                   kpc, PanicHandlers, ReallyCrash, crashed,
                   asnap, alog, wpc>>

\* What a read of the slice header PanicHandlers can return.  The variable is
\* a plain slice: a read that overlaps the write of `PanicHandlers =
\* append(PanicHandlers, h)` is a data race and may see the old header, the
\* new one, or a mix of the two that does not describe a slice of handlers.
HeaderReads ==
    IF wpc = "writing"
    THEN {PanicHandlers, Append(PanicHandlers, NewHandler), <<"torn">>}
    ELSE {PanicHandlers}

\* The unit of work ends the attempt: it panics (recover() in the deferred
\* HandleCrash returns non-nil and `range PanicHandlers` reads the slice
\* once), returns, or never does either.
AttemptDo(n) ==
    /\ ~crashed
    /\ apc[n] = "do"
    /\ ares' = [ares EXCEPT ![n] = Outcome(n)]
    /\ apc' = [apc EXCEPT ![n] = CASE Outcome(n) = "hang" -> "hung"
                                   [] Outcome(n) = "normal" -> "close"
                                   [] OTHER -> "recover"]
    /\ aidx' = [aidx EXCEPT ![n] = 1]
    /\ \E h \in (IF Outcome(n) = "fault" THEN HeaderReads ELSE {asnap[n]}) :
         asnap' = [asnap EXCEPT ![n] = h]
    /\ UNCHANGED <<sc, dpc, spc, launched, counter, startClosed, cancelled,
                   ts, kpc, PanicHandlers, ReallyCrash, crashed,
                   cancelledEarly, alog, wpc>>

----------------------------------------------------------------------------
(* The attempt's goroutine around the unit of work *)

\* Variation: the additional handler returns without sending.
RearmDropped(n) == [apc EXCEPT ![n] = "sent"]

\* The additional handler the loop passes to HandleCrash:
\* func(_ interface{}) { start <- struct{}{} }, entered and blocked.
Rearm(n) == [apc EXCEPT ![n] = "send"]

\* Variation: the range runs over the slice from its end.
HandlerAtReversed(n) == asnap[n][Len(asnap[n]) + 1 - aidx[n]]

\* `for _, fn := range PanicHandlers`: the entry the loop is at.
HandlerAt(n) == asnap[n][aidx[n]]

\* HandleCrash with a recovered panic: one PanicHandlers entry per step, in
\* the order of the slice, then the additional handler, which blocks in
\* `start <- struct{}{}` (a send on the closed channel panics inside the
\* deferred call).  Calling through a header that describes no slice of
\* handlers ends the process.
AttemptHandleCrash(n) ==
    /\ ~crashed
    /\ apc[n] = "recover"
    /\ IF aidx[n] <= Len(asnap[n])
       THEN IF HandlerAt(n) = "torn"
            THEN /\ crashed' = TRUE
                 /\ UNCHANGED <<apc, aidx, alog>>
            ELSE /\ aidx' = [aidx EXCEPT ![n] = aidx[n] + 1]
                 /\ alog' = [alog EXCEPT
                               ![n] = Append(alog[n], HandlerAt(n))]
                 /\ UNCHANGED <<apc, crashed>>
       ELSE IF startClosed
       THEN /\ crashed' = TRUE
            /\ alog' = [alog EXCEPT ![n] = Append(alog[n], "rearm")]
            /\ UNCHANGED <<apc, aidx>>
       ELSE /\ apc' = Rearm(n)
            /\ alog' = [alog EXCEPT ![n] = Append(alog[n], "rearm")]
            /\ UNCHANGED <<aidx, crashed>>
    /\ UNCHANGED <<sc, dpc, spc, ares, launched, counter, startClosed,
                   cancelled, ts, kpc, PanicHandlers, ReallyCrash,
                   cancelledEarly, asnap, wpc>>

\* Where the goroutine function's return leaves the attempt: a plain
\* goroutine is over, one started by ts.Go is back in mockTomb.run.
Returns == IF sc.variant = "tomb" THEN "exit" ELSE "done"

\* Variation: HandleCrash re-raises whatever the flag says.
ReraisesAlways == TRUE

\* `if ReallyCrash` in HandleCrash.
Reraises == ReallyCrash

\* HandleCrash after the handlers have run: `if ReallyCrash { panic(r) }`,
\* which nothing recovers, else the goroutine function returns.
AttemptReraise(n) ==
    /\ ~crashed
    /\ apc[n] = "sent"
    /\ IF Reraises
       THEN /\ crashed' = TRUE
            /\ apc' = [apc EXCEPT ![n] = "reraised"]
       ELSE /\ apc' = [apc EXCEPT ![n] = Returns]
            /\ crashed' = crashed
    /\ UNCHANGED <<sc, dpc, spc, aidx, ares, launched, counter, startClosed,
                   cancelled, ts, kpc, PanicHandlers, ReallyCrash,
                   cancelledEarly, asnap, alog, wpc>>

\* Variation: the deferred HandleCrash runs its handlers without looking at
\* what recover() returned.
AfterCloseHandlers == "recover"

\* The deferred HandleCrash after a normal return: recover() returns nil,
\* no handler runs and the goroutine function returns.
AfterClose == Returns

\* close(start) after do returned, then the return.  Closing a closed
\* channel panics (and HandleCrash recovers it, reading the slice); a
\* goroutine blocked in a send on the channel being closed panics.
AttemptClose(n) ==
    /\ ~crashed
    /\ apc[n] = "close"
    /\ IF startClosed
       THEN /\ apc' = [apc EXCEPT ![n] = "recover"]
            /\ UNCHANGED <<startClosed, crashed>>
       ELSE IF Senders # {}
       THEN /\ crashed' = TRUE
            /\ startClosed' = TRUE
            /\ apc' = apc
       ELSE /\ startClosed' = TRUE
            /\ apc' = [apc EXCEPT ![n] = AfterClose]
            /\ crashed' = crashed
    /\ \E h \in (IF startClosed \/ AfterClose = "recover"
                 THEN HeaderReads ELSE {asnap[n]}) :
         asnap' = [asnap EXCEPT ![n] = h]
    /\ UNCHANGED <<sc, dpc, spc, aidx, ares, launched, counter, cancelled, ts,
                   kpc, PanicHandlers, ReallyCrash, cancelledEarly, alog,
                   wpc>>

\* Variation: the closure's result after a recovered panic is an error.
FReturnErrOnPanic(n) ==
    IF ares[n] = "fault" \/ (ares[n] = "normal" /\ sc.retErr)
    THEN "err" ELSE "nil"

\* Variation: the closure returns nil whatever do returned.
FReturnNil(n) == "nil"

\* The value the closure handed to ts.Go returns: err of do after a normal
\* return, the zero value after a recovered panic.
FReturn(n) == IF ares[n] = "normal" /\ sc.retErr THEN "err" ELSE "nil"

\* mockTomb.run after the closure handed to ts.Go returned.
AttemptExit(n) ==
    /\ ~crashed
    /\ apc[n] = "exit"
    /\ apc' = [apc EXCEPT ![n] = "done"]
    /\ ts' = RunTail(ts, FReturn(n))
    /\ cancelledEarly' = EarlyAfter(ts'.dying)
    /\ UNCHANGED <<sc, dpc, spc, aidx, ares, launched, counter, startClosed,
                   cancelled, kpc, PanicHandlers, ReallyCrash, crashed,
                   asnap, alog, wpc>>

\* The other goroutine the tomb tracks: `<-ts.Dying(); return nil`, then
\* mockTomb.run accounts for it.
KeeperExit ==
    /\ ~crashed
    /\ kpc = "wait"
    /\ ts.dying
    /\ kpc' = "done"
    /\ ts' = RunTail(ts, "nil")
    /\ UNCHANGED <<sc, dpc, spc, apc, aidx, ares, launched, counter,
                   startClosed, cancelled, PanicHandlers, ReallyCrash,
                   crashed, cancelledEarly,
                   asnap, alog, wpc>>

----------------------------------------------------------------------------

Driver ==
    \/ DriverSelectStop
    \/ DriverSelectStart
    \/ DriverStartClosed
    \/ DriverRange
    \/ DriverCtxCheck
    \/ DriverTombPoll
    \/ DriverTombGo

Attempt(n) ==
    \/ AttemptInc(n)
    \/ AttemptSignal(n)
    \/ AttemptDo(n)
    \/ AttemptHandleCrash(n)
    \/ AttemptReraise(n)
    \/ AttemptClose(n)
    \/ AttemptExit(n)

Next ==
    \/ Driver
    \/ \E n \in Attempts : Attempt(n)
    \/ KeeperExit
    \/ ExtCancel

Spec == Init /\ [][Next]_vars

\* The same calls under a configuration set before the call.
SpecConfigured == InitConfigured /\ [][Next]_vars

\* Another goroutine runs `PanicHandlers = append(PanicHandlers, h)`: the
\* write of the slice header begins.
RegisterBegin ==
    /\ ~crashed
    /\ wpc = "idle"
    /\ wpc' = "writing"
    /\ UNCHANGED <<sc, dpc, spc, apc, aidx, ares, launched, counter,
                   startClosed, cancelled, ts, kpc, PanicHandlers, ReallyCrash,
                   crashed, cancelledEarly, asnap, alog>>

\* The write of the slice header is complete.
RegisterEnd ==
    /\ ~crashed
    /\ wpc = "writing"
    /\ wpc' = "done"
    /\ PanicHandlers' = Append(PanicHandlers, NewHandler)
    /\ UNCHANGED <<sc, dpc, spc, apc, aidx, ares, launched, counter,
                   startClosed, cancelled, ts, kpc, ReallyCrash, crashed,
                   cancelledEarly, asnap, alog>>

NextRegistering ==
    \/ Next
    \/ RegisterBegin
    \/ RegisterEnd

\* The same calls while another goroutine registers a handler.
SpecRegistering == Init /\ [][NextRegistering]_vars

\* The steps of the goroutines of the program (cancellation by somebody else
\* is not one of them).
Sched ==
    \/ Driver
    \/ \E n \in Attempts : Attempt(n)
    \/ KeeperExit

\* The scheduler keeps running goroutines while one can take a step, and a
\* select whose `case <-stopChan` stays ready eventually takes it.  Nothing
\* obliges anybody else to signal cancellation.
Fairness ==
    /\ WF_vars(Sched)
    /\ WF_vars(DriverSelectStop)

FairSpec == Spec /\ Fairness

TypeOK ==
    /\ sc \in Scenarios
    /\ dpc \in {"recv", "check", "go", "returned"}
    /\ spc \in {"send", "done"}
    /\ launched \in 0..MaxAttempts
    /\ counter \in 0..MaxAttempts
    /\ ts.alive \in 0..(MaxAttempts + 1)

----------------------------------------------------------------------------
(* Properties *)

Returned == dpc = "returned"

\* Nobody ever signals cancellation: not the unit of work, not anybody else.
NeverSignalled == ~sc.extCancel /\ sc.cancelAt = 0

\* Attempts that have been launched and have neither returned nor panicked.
InFlight == {n \in Attempts : apc[n] \in {"inc", "signal", "do", "hung"}}

\* BlockingGo, never cancelled, the work panics on attempts 1..K-1 and
\* returns on attempt K = sc.retAt.
ReturnsAtK ==
    /\ sc.variant \in {"stop", "ctx"}
    /\ NeverSignalled
    /\ sc.retAt >= 1

\* C1: BlockingGo, never cancelled, with a unit of work that panics on
\* attempts 1..K-1 and returns on attempt K: never more than K attempts are
\* launched, the call returns only after attempt K returned, with exactly K
\* launched, and it does eventually return.
C1_ExactlyKAttempts ==
    /\ [](ReturnsAtK =>
            /\ launched <= sc.retAt
            /\ Returned => (launched = sc.retAt /\ ares[sc.retAt] = "normal"))
    /\ (ReturnsAtK ~> (Returned /\ launched = sc.retAt))

C1_Witness ==
    /\ ReturnsAtK
    /\ sc.retAt = 3
    /\ Returned
    /\ launched = 3
    /\ ares[1] = "fault" /\ ares[2] = "fault" /\ ares[3] = "normal"

\* BlockingGo, never cancelled, the work panics on every attempt.
AlwaysFaults ==
    /\ sc.variant \in {"stop", "ctx"}
    /\ NeverSignalled
    /\ sc.retAt = 0
    /\ sc.hangAt = 0

\* C2: BlockingGo, never cancelled, with a unit of work that panics on every
\* attempt: the call never returns, and the number of launched attempts
\* eventually reaches every k up to the number the model allows.
C2_RestartsIndefinitely ==
    /\ [](AlwaysFaults => ~Returned)
    /\ \A k \in Attempts : (AlwaysFaults ~> launched >= k)

C2_Witness ==
    /\ AlwaysFaults
    /\ launched = MaxAttempts
    /\ \A n \in Attempts : ares[n] = "fault"
    /\ ~Returned

\* The stop-channel test: the work closes stop when the counter reaches
\* N = sc.cancelAt and panics on every attempt.
StopTest ==
    /\ sc.variant = "stop"
    /\ sc.cancelAt >= 1
    /\ sc.retAt = 0
    /\ sc.hangAt = 0

\* C3: in the stop-channel test, at the moment BlockingGo returns the counter
\* is exactly N.
C3_CounterIsN ==
    [][(StopTest /\ ~Returned /\ Returned') => counter' = sc.cancelAt]_vars

\* C4: stop-channel BlockingGo launches no attempt once the stop channel is
\* closed, in particular none at all when it was closed from the start.
C4_CancellationWins ==
    [][(sc.variant = "stop" /\ cancelled) => launched' = launched]_vars

\* C5: context BlockingGo and BlockingGoTomb: when cancellation was signalled
\* before any attempt panicked, at most one attempt is ever launched.
C5_AtMostOneAttempt ==
    (sc.variant \in {"ctx", "tomb"} /\ cancelledEarly) => launched <= 1

C5_Witness ==
    /\ sc.variant = "ctx"
    /\ cancelledEarly
    /\ launched = 1
    /\ ares[1] = "fault"
    /\ apc[1] = "done"
    /\ Returned

\* The tomb test: a keeper keeps the tomb alive, the work kills the tomb when
\* the counter reaches N = sc.cancelAt and panics on every attempt.
TombTest ==
    /\ sc.variant = "tomb"
    /\ sc.keeper
    /\ sc.cancelAt >= 1
    /\ sc.retAt = 0
    /\ sc.hangAt = 0

\* C6: in the tomb test BlockingGoTomb eventually returns, and whenever it
\* has returned the counter is exactly N.
C6_TombCounterIsN ==
    /\ []((TombTest /\ Returned) => counter = sc.cancelAt)
    /\ (TombTest ~> Returned)

C6_Witness ==
    /\ TombTest
    /\ sc.cancelAt = 3
    /\ Returned
    /\ counter = 3
    /\ launched = 3

\* C7: whenever a blocking variant has returned, some attempt returned
\* normally or the cancellation source has been signalled.
C7_NoReturnOnFault ==
    Returned => ((\E n \in Attempts : ares[n] = "normal") \/ Cancelled)

C7_Witness ==
    /\ Returned
    /\ ares[1] = "fault"
    /\ ares[2] = "normal"
    /\ ~Cancelled

\* C8: stop-channel BlockingGo: once the stop channel is closed the call
\* eventually returns, whatever the attempt in flight does.
C8_StopReturns ==
    (sc.variant = "stop" /\ cancelled) ~> Returned

C8_Witness ==
    /\ sc.variant = "stop"
    /\ cancelled
    /\ Returned
    /\ \E n \in Attempts : apc[n] = "hung"

\* C9: context BlockingGo and BlockingGoTomb: once cancellation is signalled
\* while an attempt is in flight, the call eventually returns.
C9_CancelReturns ==
    (/\ sc.variant \in {"ctx", "tomb"}
     /\ Cancelled
     /\ InFlight # {}
     /\ launched < MaxAttempts) ~> Returned

\* BlockingGoTomb with a unit of work whose first attempt returns a non-nil
\* error.
ErrFirst ==
    /\ sc.variant = "tomb"
    /\ sc.retAt = 1
    /\ sc.retErr

\* C10: BlockingGoTomb, the first attempt returns a non-nil error without
\* panicking: no second attempt is launched, the error is what the closure
\* returns to the tomb, the tomb records it as its reason once the attempt
\* is accounted for, and BlockingGoTomb returns.
C10_ErrorStopsSupervision ==
    /\ [](ErrFirst =>
            /\ launched <= 1
            /\ ares[1] = "normal" => (launched = 1 /\ FReturn(1) = "err")
            /\ apc[1] = "done" => (ts.reason = "err" /\ ts.dying))
    /\ ((ErrFirst /\ ares[1] = "normal") ~> Returned)

C10_Witness ==
    /\ ErrFirst
    /\ apc[1] = "done"
    /\ launched = 1
    /\ ts.reason = "err"
    /\ Returned

\* An attempt whose fault HandleCrash has taken through its handlers, or that
\* has returned normally.
Over(n) == apc[n] \in {"sent", "reraised", "exit", "done"}

\* C11: at most one attempt is executing the unit of work, and attempt n+1
\* exists only once attempt n has returned normally or has had its panic
\* taken through the handlers of HandleCrash.
C11_OneAttemptAtATime ==
    /\ Cardinality(InFlight) <= 1
    /\ \A n \in Attempts :
         (n > 1 /\ apc[n] # "none") =>
             (ares[n - 1] \in {"fault", "normal"} /\ Over(n - 1))

C11_Witness ==
    /\ launched = 3
    /\ apc[3] = "do"
    /\ apc[2] = "sent"
    /\ apc[1] \in {"exit", "done"}

IsPrefix(a, b) ==
    /\ Len(a) <= Len(b)
    /\ \A i \in 1..Len(a) : a[i] = b[i]

\* C13: HandleCrash calls the PanicHandlers entries in the order of the
\* list, then the additional handler (the re-arm), and is past the handlers
\* (blocked in the re-arm's send, re-raising, or returned) only when all of
\* them have been called.
C13_HandlerOrder ==
    \A n \in Attempts :
        /\ IsPrefix(alog[n], Append(PanicHandlers, "rearm"))
        /\ (ares[n] = "fault" /\ apc[n] # "recover") =>
               alog[n] = Append(PanicHandlers, "rearm")

C13_Witness ==
    /\ PanicHandlers = <<"logPanic", NewHandler>>
    /\ ReallyCrash
    /\ apc[1] = "reraised"
    /\ alog[1] = <<"logPanic", NewHandler, "rearm">>

\* C14: no read of PanicHandlers by HandleCrash (the step that enters its
\* range loop) overlaps the write of a registration.
C14_NoRegistryRace ==
    [][\A n \in Attempts :
         (apc[n] # "recover" /\ apc'[n] = "recover") => wpc # "writing"]_vars

\* C15: at most one goroutine is blocked in a send on start.
C15_OneTokenOutstanding == Cardinality(Senders) <= 1

C15_Witness ==
    /\ Senders = {2}
    /\ dpc = "recv"
    /\ spc = "done"
    /\ apc[1] = "done"

\* C16: stop-channel BlockingGo: once the loop has returned, no goroutine it
\* created is blocked in a send on start (which nobody will receive).
C16_NoGoroutineLeftBlocked ==
    (sc.variant = "stop" /\ Returned) => Senders = {}

\* BlockingGoTomb on a tomb that tracks nothing but the supervised work and
\* that nobody else kills.
OnlyTask ==
    /\ sc.variant = "tomb"
    /\ ~sc.keeper
    /\ NeverSignalled

\* C17: with the supervised work the tomb's only task, as long as no attempt
\* has returned normally the tomb keeps a tracked goroutine once the first
\* attempt is launched and is not dying, and the loop never calls ts.Go on a
\* dead tomb.
C17_TombSurvivesFaults ==
    OnlyTask =>
        /\ (launched >= 1 /\ \A n \in Attempts : ares[n] # "normal") =>
               (ts.alive >= 1 /\ ~ts.dying)
        /\ ~(dpc = "go" /\ ts.dead)

\* C18: after a normal return of the unit of work HandleCrash has called no
\* handler for that attempt, nobody is or will be sending a token, and once
\* the attempt is past close(start) the channel is closed.
C18_NoHandlerOnNormalReturn ==
    \A n \in Attempts :
        ares[n] = "normal" =>
            /\ alog[n] = <<>>
            /\ apc[n] \in {"close", "exit", "done"}
            /\ Senders = {}
            /\ apc[n] # "close" => startClosed

C18_Witness ==
    /\ ares[2] = "normal"
    /\ apc[2] = "done"
    /\ alog[1] = Append(PanicHandlers, "rearm")
    /\ alog[2] = <<>>
    /\ startClosed

\* C19: start is never closed twice and nothing is sent on it once it is
\* closed: an attempt about to close finds it open with no sender blocked,
\* and once it is closed no goroutine is sending or can still come to send.
C19_NoChannelMisuse ==
    /\ \A n \in Attempts :
         apc[n] = "close" => (~startClosed /\ Senders = {})
    /\ startClosed =>
         /\ Senders = {}
         /\ \A n \in Attempts :
              apc[n] \in {"none", "sent", "reraised", "exit", "done"}

C19_Witness ==
    /\ startClosed
    /\ launched = 3
    /\ ares[3] = "normal"
    /\ Returned

\* C20: under BlockingGoTomb an attempt that panicked hands nil to the tomb,
\* and the tomb's reason is a non-nil error only when an attempt that
\* returned normally with that error has been accounted for.
C20_FaultReportsNil ==
    /\ \A n \in Attempts : ares[n] = "fault" => FReturn(n) = "nil"
    /\ ts.reason = "err" =>
         \E n \in Attempts :
             ares[n] = "normal" /\ sc.retErr /\ apc[n] = "done"

C20_Witness ==
    /\ sc.variant = "tomb"
    /\ ares[1] = "fault"
    /\ apc[1] = "done"
    /\ ts.dead
    /\ ts.reason = "nil"

====
